---- MODULE Spec2Model ----
(***************************************************************************)
(* A model of exhaustive.py: the choice primitive Chooser.choose, the      *)
(* search driver Chooser.apply, the relational algebra of Assignments      *)
(* (combine, fix, filter, fetch), and Chart (create, _collect, execute).   *)
(*                                                                         *)
(* Spec       : one call of Chooser.apply(f) on a flow f drawn from a      *)
(*              bounded family of flows.                                   *)
(* FairSpec   : Spec on the flows that have a choice tree, with weak       *)
(*              fairness of the next step (the interpreter keeps running   *)
(*              apply).                                                    *)
(* SingleSpec : one direct call of a flow with a Chooser in single choice  *)
(*              mode.                                                      *)
(* AlgSpec    : the operations of Assignments and of Chart applied to      *)
(*              bounded collections of binding records.                    *)
(* ChartSpec  : one call of Chart.create on a class of one or two marked    *)
(*              methods, some of which run nested searches by execute.     *)
(***************************************************************************)
EXTENDS Integers, Sequences, FiniteSets, Bags, TLC

(***************************************************************************)
(* Bounds of the model.                                                    *)
(***************************************************************************)
\* the number of choose() call sites a flow lists
MaxSites == 2
\* the length of the list handed to one choose() call
MaxChoices == 2
\* the number of records of a collection of assignments
MaxLen == 2

\* no replay forks at or below this depth: caps the flows whose tree is infinite;
\* every finite tree of the family is shallower
MaxDepth == MaxSites + 2

\* the values offered at the choice points, as in the sample flows: choose([0,1])
Values == {0, 1}

(***************************************************************************)
(* Sequence helpers.                                                       *)
(***************************************************************************)
Range(s) == {s[i] : i \in 1 .. Len(s)}

Last(s) == s[Len(s)]

Front(s) == SubSeq(s, 1, Len(s) - 1)

SeqsUpTo(S, n) == UNION {[1 .. k -> S] : k \in 0 .. n}

\* the elements of s that are not in S, in the order of s
RECURSIVE Without(_, _)
Without(s, S) ==
    IF s = <<>> THEN <<>>
    ELSE IF Head(s) \in S THEN Without(Tail(s), S)
         ELSE <<Head(s)>> \o Without(Tail(s), S)

\* the number of positions of s that hold x
Count(s, x) == Cardinality({i \in 1 .. Len(s) : s[i] = x})

(***************************************************************************)
(* Return values of a flow.  A value is <<tag, path>>: the tag names the   *)
(* Python value ("vars" is the dict of the flow's local bindings, as in    *)
(* return vars()), and path is the choices of the replay that returned it. *)
(***************************************************************************)
Literals == {"None", "0", "''", "[]", "{}"}

\* res is None
IsNone(res) == res[1] = "None"

\* Python's truth value of a return value: bool(res)
Truthy(res) == res[1] \notin Literals

(***************************************************************************)
(* The flows: the function f handed to apply.  A flow is                   *)
(*                                                                         *)
(*   def f(chooser):                                                       *)
(*       picks = []                                                        *)
(*       for choices in sites:          # mode "loop": cycled for ever     *)
(*           # mode "uniq":   drop from choices the values in picks        *)
(*           # mode "impure": if env: choices = choices[1:]                *)
(*           c = chooser.choose(choices)                                   *)
(*           picks.append(c)                                               *)
(*           if c in stop: break                                           *)
(*       if picks == [] or picks[-1] == 0:                                 *)
(*           return ret                 # ret "raise": raise FlowError     *)
(*       return vars()                                                     *)
(*                                                                         *)
(* the shape of the sample flows of exhaustive.py: r1/r2/r3 (two sites,    *)
(* vars()), primes ({} on some paths), equation (None on some paths),      *)
(* matching (uniq: L.remove(i)), controller (loop with stop conditions).   *)
(* In mode "impure" the choices depend on state outside the choice prefix  *)
(* (env, say a list shared by all replays that some replay shortens),      *)
(* which may change once, between two replays.  The call sites after the   *)
(* second all offer the list of the second.                                *)
(***************************************************************************)
ChoiceLists == SeqsUpTo(Values, MaxChoices)

Sites ==
    {s \in SeqsUpTo(ChoiceLists, MaxSites) : \A k \in 1 .. Len(s) : k > 2 => s[k] = s[2]}

Modes == {"plain", "uniq", "loop", "impure"}

Flows ==
    [sites : Sites,
     stop : {{}} \cup {{v} : v \in Values},
     ret : Literals \cup {"raise"},
     mode : Modes]

VARIABLES
    flow,       \* f, the argument of apply
    env,        \* state outside the flow that an impure flow reads
    pc,         \* "while": at the loop test of apply; "flow": inside f;
                \* "returned": apply returned; "raised": an exception left apply
    stack,      \* apply's stack, shared with every Chooser (self._stack)
    results,    \* apply's results
    chosen,     \* self._chosen of the current Chooser
    choosit,    \* self._choosit: the number of values of chosen consumed
    returned,   \* <<>> until apply returns, then <<the list returned>>
    exc,        \* the exception that left apply, "none" otherwise
    completed,  \* history: the replays that returned, in order, each as the
                \* alternatives it took
    popped,     \* history: the paths popped, in order
    stackAlts,  \* history: for each list of choices on the stack, which
                \* alternative (position in the list offered) each choice was
    chosenAlts, \* history: the same for chosen
    resultAlts, \* history: the same for the path of each result
    forked      \* history: the replays that forked, in order, each as the
                \* alternatives it had taken

VARIABLES
    asn,        \* self.assignments of the Assignments (or Chart) first called
    cur,        \* the assignments of the object the last call returned
    hist,       \* history: the calls made so far, each <<method, argument,
                \* whether it was called on a Chart>>
    heap,       \* the containers (Assignments, or Charts with theirs) that
                \* exist, each as its list of records; its position is its
                \* identity
    out         \* the container the last call returned, the receiver of the
                \* next; 0 if it returned a plain list

VARIABLES
    methods,    \* the flow-marked methods of the Chart, in the order the class
                \* body defines them, each [name, body, subs]: subs are the
                \* functions the body hands to self.execute before it returns
    todo,       \* create's loop: the names of dir(self) not yet visited
    chartAssignments,
                \* self.assignments of the Chart that create fills
    origin,     \* history: for each element of chartAssignments, the name of the
                \* method and the alternatives of the replay it came from
    frames,     \* the apply whose flow is inside self.execute: its variables,
                \* while the apply of the sub-chart runs
    inres       \* the collections that self.execute returned to the replay
                \* that is running

VARIABLES
    single,     \* self._single_choice of the Chooser: it was made without a stack
    taken       \* the values choose has returned to a flow that was called
                \* with such a Chooser

singleVars == <<single, taken>>

chooserVars == <<flow, env, pc, stack, results, chosen, choosit, returned, exc,
                 completed, popped, stackAlts, chosenAlts, resultAlts, forked>>

assignmentVars == <<asn, cur, hist, heap, out>>

chartVars == <<methods, todo, chartAssignments, origin, frames, inres>>

vars == <<chooserVars, assignmentVars, chartVars, singleVars>>

\* the history variables that only a fork or a pop changes
alts == <<stackAlts, chosenAlts>>

\* the functions that the flow of the running apply hands to self.execute:
\* those of the method create is at, none for the flow of a sub-chart and
\* none outside a Chart
Subs ==
    IF todo # <<>> /\ frames = <<>>
    THEN (CHOOSE m \in Range(methods) : m.name = Head(todo)).subs
    ELSE <<>>

\* the choices the running replay has made so far (the flow's picks)
Picks == SubSeq(chosen, 1, choosit)

\* the flow f is at a choose() call after the choices p
AtChoose(f, p) ==
    IF (IF p = <<>> THEN FALSE ELSE Last(p) \in f.stop) THEN FALSE
    ELSE IF Len(p) < Len(f.sites) THEN TRUE
    ELSE f.mode = "loop" /\ f.sites # <<>>

\* the list the flow f hands to choose() after the choices p, in environment e
Choices(f, p, e) ==
    LET base == f.sites[(Len(p) % Len(f.sites)) + 1]
        fresh == IF f.mode = "uniq" THEN Without(base, Range(p))
                 ELSE base
    IN  IF f.mode = "impure" /\ e /\ fresh # <<>> THEN Tail(fresh) ELSE fresh

\* the flow's test at its end: picks == [] or picks[-1] == 0
EndsLow(p) == IF p = <<>> THEN TRUE ELSE Last(p) = 0

\* the flow f, past its last choose() after the choices p, raises
Raises(f, p) == IF f.ret = "raise" THEN EndsLow(p) ELSE FALSE

\* the value the flow f returns after the choices p
ReturnValue(f, p) == <<IF EndsLow(p) THEN f.ret ELSE "vars", p>>

(***************************************************************************)
(* Chooser.choose and Chooser.apply.                                       *)
(***************************************************************************)
\* a fork that leaves out the first of the choices
ForkedSkipsFirst(path, choices) ==
    [i \in 1 .. Len(choices) - 1 |-> Append(path, choices[i + 1])]

\* a fork that pushes every choice twice
ForkedTwice(path, choices) ==
    [i \in 1 .. 2 * Len(choices) |-> Append(path, choices[((i - 1) % Len(choices)) + 1])]

\* a fork that pushes the choices last first
ForkedReversed(path, choices) ==
    [i \in 1 .. Len(choices) |-> Append(path, choices[Len(choices) + 1 - i])]

\* the lists of choices a fork adds to the stack:
\* [self._chosen + [choice] for choice in choices]
Forked(path, choices) == [i \in 1 .. Len(choices) |-> Append(path, choices[i])]

\* a membership test that always passes
InChoicesAlways(c, choices) == TRUE

\* c in choices (choose raises ChooserException if c not in choices)
InChoices(c, choices) == c \in Range(choices)

\* a collection that drops every falsy value: if res: results.append(res)
CollectTruthy(rs, res) == IF Truthy(res) THEN Append(rs, res) ELSE rs

\* what apply does with the value res of a replay that returned:
\* if res is not None: results.append(res)
Collect(rs, res) == IF ~IsNone(res) THEN Append(rs, res) ELSE rs

\* a handler that catches nothing
CaughtNothing(e) == FALSE

\* a handler that catches every exception: except Exception: pass
CaughtAll(e) == TRUE

\* apply's handler catches the exception e: except _ChooserEscape: pass
Caught(e) == e = "_ChooserEscape"

\* the state after: results = []; stack = [[]]
Init ==
    /\ flow \in Flows
    /\ env = FALSE
    /\ pc = "while"
    /\ stack = << <<>> >>
    /\ results = <<>>
    /\ chosen = <<>>
    /\ choosit = 0
    /\ returned = <<>>
    /\ exc = "none"
    /\ completed = <<>>
    /\ popped = <<>>
    /\ stackAlts = << <<>> >>
    /\ chosenAlts = <<>>
    /\ resultAlts = <<>>
    /\ forked = <<>>
    /\ asn = <<>>
    /\ cur = <<>>
    /\ hist = <<>>
    /\ heap = <<>>
    /\ out = 0
    /\ methods = <<>>
    /\ todo = <<>>
    /\ chartAssignments = <<>>
    /\ origin = <<>>
    /\ frames = <<>>
    /\ inres = <<>>
    /\ single = FALSE
    /\ taken = <<>>

\* while stack: chosen = stack.pop(); f(chooser = chooser_cls(chosen, stack))
Pop ==
    /\ UNCHANGED forked
    /\ pc = "while"
    /\ stack # <<>>
    /\ chosen' = Last(stack)
    /\ stack' = Front(stack)
    /\ choosit' = 0
    /\ popped' = Append(popped, Last(stack))
    /\ env' \in (IF flow.mode = "impure" /\ ~env THEN BOOLEAN ELSE {env})
    /\ pc' = "flow"
    /\ chosenAlts' = Last(stackAlts)
    /\ stackAlts' = Front(stackAlts)
    /\ UNCHANGED <<flow, results, returned, exc, completed, resultAlts>>
    /\ UNCHANGED <<assignmentVars, chartVars, singleVars>>

\* choose(choices) with a recorded value left: c = next(self._choosit)
ChooseReplay ==
    /\ UNCHANGED forked
    /\ pc = "flow"
    /\ ~single
    /\ AtChoose(flow, Picks)
    /\ choosit < Len(chosen)
    /\ LET c == chosen[choosit + 1]
       IN  IF ~InChoices(c, Choices(flow, Picks, env))
           THEN \* raise ChooserException("Program is not deterministic")
                /\ IF Caught("ChooserException")
                   THEN pc' = "while" /\ UNCHANGED exc
                   ELSE pc' = "raised" /\ exc' = "ChooserException"
                /\ UNCHANGED choosit
           ELSE \* return c
                /\ choosit' = choosit + 1
                /\ UNCHANGED <<pc, exc>>
    /\ UNCHANGED <<flow, env, stack, results, chosen, returned, completed, popped,
                   alts, resultAlts>>
    /\ UNCHANGED <<assignmentVars, chartVars, singleVars>>

\* choose(choices) with self._choosit exhausted: extend the stack and raise
\* _ChooserEscape, which apply catches and passes
ChooseFork ==
    /\ pc = "flow"
    /\ ~single
    /\ AtChoose(flow, Picks)
    /\ choosit = Len(chosen)
    /\ Len(chosen) < MaxDepth
    /\ forked' = Append(forked, chosenAlts)
    /\ LET new == Forked(chosen, Choices(flow, Picks, env))
       IN  /\ stack' = stack \o new
           /\ stackAlts' = stackAlts \o [k \in 1 .. Len(new) |-> Append(chosenAlts, k)]
    /\ IF Caught("_ChooserEscape")
       THEN pc' = "while" /\ UNCHANGED exc
       ELSE pc' = "raised" /\ exc' = "_ChooserEscape"
    /\ UNCHANGED <<flow, env, results, chosen, choosit, returned, completed, popped,
                   chosenAlts, resultAlts>>
    /\ UNCHANGED <<assignmentVars, chartVars, singleVars>>

\* f returns res: if res is not None: results.append(res)
FlowReturn ==
    /\ UNCHANGED forked
    /\ pc = "flow"
    /\ ~AtChoose(flow, Picks)
    /\ Subs = <<>>
    /\ ~Raises(flow, Picks)
    /\ results' = Collect(results, ReturnValue(flow, Picks))
    /\ completed' = Append(completed, chosenAlts)
    /\ resultAlts' = IF Len(results') > Len(results)
                     THEN Append(resultAlts, chosenAlts) ELSE resultAlts
    /\ pc' = "while"
    /\ UNCHANGED <<flow, env, stack, chosen, choosit, returned, exc, popped, alts>>
    /\ UNCHANGED <<assignmentVars, chartVars, singleVars>>

\* f raises an exception that is not _ChooserEscape: it leaves apply
FlowRaise ==
    /\ UNCHANGED forked
    /\ pc = "flow"
    /\ ~AtChoose(flow, Picks)
    /\ Subs = <<>>
    /\ Raises(flow, Picks)
    /\ IF Caught("FlowError")
       THEN pc' = "while" /\ UNCHANGED exc
       ELSE pc' = "raised" /\ exc' = "FlowError"
    /\ UNCHANGED <<flow, env, stack, results, chosen, choosit, returned,
                   completed, popped, alts, resultAlts>>
    /\ UNCHANGED <<assignmentVars, chartVars, singleVars>>

\* the loop test fails: return results
ApplyReturn ==
    /\ UNCHANGED forked
    /\ pc = "while"
    /\ stack = <<>>
    /\ returned' = <<results>>
    /\ pc' = "returned"
    /\ UNCHANGED <<flow, env, stack, results, chosen, choosit, exc,
                   completed, popped, alts, resultAlts>>
    /\ UNCHANGED <<assignmentVars, chartVars, singleVars>>

Next ==
    \/ Pop
    \/ ChooseReplay
    \/ ChooseFork
    \/ FlowReturn
    \/ FlowRaise
    \/ ApplyReturn

Spec == Init /\ [][Next]_vars

\* a default that is the last of the choices
LastChoice(choices) == choices[Len(choices)]

\* the default value of single choice mode: choices[0]
FirstChoice(choices) == choices[1]

\* f(chooser = Chooser()): the flow is called directly, with a Chooser made
\* without a stack; no apply runs
SingleInit ==
    /\ flow \in Flows
    /\ single = TRUE
    /\ taken = <<>>
    /\ env = FALSE
    /\ pc = "flow"
    /\ stack = <<>>
    /\ results = <<>>
    /\ chosen = <<>>
    /\ choosit = 0
    /\ returned = <<>>
    /\ exc = "none"
    /\ completed = <<>>
    /\ popped = <<>>
    /\ stackAlts = <<>>
    /\ chosenAlts = <<>>
    /\ resultAlts = <<>>
    /\ forked = <<>>
    /\ asn = <<>>
    /\ cur = <<>>
    /\ hist = <<>>
    /\ heap = <<>>
    /\ out = 0
    /\ methods = <<>>
    /\ todo = <<>>
    /\ chartAssignments = <<>>
    /\ origin = <<>>
    /\ frames = <<>>
    /\ inres = <<>>

\* choose(choices) in single choice mode: return choices[0], which raises
\* IndexError on an empty list
ChooseFirst ==
    /\ UNCHANGED forked
    /\ pc = "flow"
    /\ single
    /\ AtChoose(flow, taken)
    /\ Len(taken) < MaxDepth
    /\ LET choices == Choices(flow, taken, env)
       IN  IF choices = <<>>
           THEN pc' = "raised" /\ exc' = "IndexError" /\ UNCHANGED taken
           ELSE taken' = Append(taken, FirstChoice(choices)) /\ UNCHANGED <<pc, exc>>
    /\ UNCHANGED <<flow, env, stack, results, chosen, choosit, returned,
                   completed, popped, alts, resultAlts, single>>
    /\ UNCHANGED <<assignmentVars, chartVars>>

\* the flow returns to its caller
CallReturn ==
    /\ UNCHANGED forked
    /\ pc = "flow"
    /\ single
    /\ ~AtChoose(flow, taken)
    /\ ~Raises(flow, taken)
    /\ returned' = <<ReturnValue(flow, taken)>>
    /\ pc' = "returned"
    /\ UNCHANGED <<flow, env, stack, results, chosen, choosit, exc,
                   completed, popped, alts, resultAlts, singleVars>>
    /\ UNCHANGED <<assignmentVars, chartVars>>

\* the flow raises to its caller
CallRaise ==
    /\ UNCHANGED forked
    /\ pc = "flow"
    /\ single
    /\ ~AtChoose(flow, taken)
    /\ Raises(flow, taken)
    /\ pc' = "raised"
    /\ exc' = "FlowError"
    /\ UNCHANGED <<flow, env, stack, results, chosen, choosit, returned,
                   completed, popped, alts, resultAlts, singleVars>>
    /\ UNCHANGED <<assignmentVars, chartVars>>

SingleNext ==
    \/ ChooseFirst
    \/ CallReturn
    \/ CallRaise

SingleSpec == SingleInit /\ [][SingleNext]_vars

\* apply on a flow that has a choice tree and returns 0 or raises at its low
\* ends: whether apply terminates does not depend on the values returned
FairInit == Init /\ flow.mode # "impure" /\ flow.ret \in {"0", "raise"}

FairSpec == FairInit /\ [][Next]_vars /\ WF_vars(Next)

(***************************************************************************)
(* Assignments: collections of binding records.  A record (a dict) is a    *)
(* function from some of the names to values; a collection is a sequence   *)
(* of records.                                                             *)
(***************************************************************************)
Names == {"x", "y"}

Vals == {1, 2}

\* the dicts over Names: the assignments, and the constraints of fix and filter
Records == UNION {[K -> Vals] : K \in SUBSET Names}

Collections == SeqsUpTo(Records, MaxLen)

\* an update in which the keys of asn1 win
UpdateKeepsOwn(asn1, asn2) ==
    [k \in DOMAIN asn1 \cup DOMAIN asn2 |->
        IF k \in DOMAIN asn1 THEN asn1[k] ELSE asn2[k]]

\* c = asn1.copy(); c.update(asn2)
Update(asn1, asn2) ==
    [k \in DOMAIN asn1 \cup DOMAIN asn2 |->
        IF k \in DOMAIN asn2 THEN asn2[k] ELSE asn1[k]]

RECURSIVE CombineOne(_, _)
\* the inner loop of combine: for asn2 in other.assignments
CombineOne(asn1, other) ==
    IF other = <<>> THEN <<>>
    ELSE <<Update(asn1, Head(other))>> \o CombineOne(asn1, Tail(other))

RECURSIVE CombineAll(_, _)
\* the outer loop of combine: for asn1 in self.assignments
CombineAll(self, other) ==
    IF self = <<>> THEN <<>>
    ELSE CombineOne(Head(self), other) \o CombineAll(Tail(self), other)

\* the argument of combine, <<"dict", record>> or <<"Assignments", collection>>:
\* if isinstance(other, dict): other = Assignments([other])
AsAssignments(other) == IF other[1] = "dict" THEN <<other[2]>> ELSE other[2]

\* Assignments.combine(self, other)
Combine(self, other) == CombineAll(self, AsAssignments(other))

\* an inner loop that also breaks on a name that asgn lacks
BreaksOnMissing(asgn, constraints, names) ==
    \E name \in names : name \notin DOMAIN asgn \/ asgn[name] # constraints[name]

\* an inner loop that looks at one item only
BreaksFirstOnly(asgn, constraints, names) ==
    IF names = {} THEN FALSE
    ELSE LET name == CHOOSE n \in names : TRUE
         IN  name \in DOMAIN asgn /\ asgn[name] # constraints[name]

RECURSIVE Breaks(_, _, _)
\* the inner loop of _fix over the items of the constraints not yet seen (names):
\* it breaks on a name in asgn whose value differs
Breaks(asgn, constraints, names) ==
    IF names = {} THEN FALSE
    ELSE LET name == CHOOSE n \in names : TRUE
         IN  IF name \in DOMAIN asgn /\ asgn[name] # constraints[name] THEN TRUE
             ELSE Breaks(asgn, constraints, names \ {name})

RECURSIVE FixPrepending(_, _)
\* a loop that puts each record it keeps before those kept so far
FixPrepending(self, constraints) ==
    IF self = <<>> THEN <<>>
    ELSE FixPrepending(Tail(self), constraints)
         \o (IF Breaks(Head(self), constraints, DOMAIN constraints) THEN <<>>
             ELSE <<Head(self)>>)

RECURSIVE Fix(_, _)
\* Assignments.fix(self, **constraints), that is _fix: the for/else over
\* self.assignments
Fix(self, constraints) ==
    IF self = <<>> THEN <<>>
    ELSE (IF Breaks(Head(self), constraints, DOMAIN constraints) THEN <<>>
          ELSE <<Head(self)>>)
         \o Fix(Tail(self), constraints)

RECURSIVE KeepWithSomeKey(_, _)
\* a loop that keeps the records that have one of the keys
KeepWithSomeKey(assignments, keys) ==
    IF assignments = <<>> THEN <<>>
    ELSE (IF keys = {} \/ keys \cap DOMAIN Head(assignments) # {}
          THEN <<Head(assignments)>> ELSE <<>>)
         \o KeepWithSomeKey(Tail(assignments), keys)

RECURSIVE KeepWithKeys(_, _)
\* the loop of filter: if keys.issubset(asgn.keys()): L.append(asgn)
KeepWithKeys(assignments, keys) ==
    IF assignments = <<>> THEN <<>>
    ELSE (IF keys \subseteq DOMAIN Head(assignments) THEN <<Head(assignments)>>
          ELSE <<>>)
         \o KeepWithKeys(Tail(assignments), keys)

\* Assignments.filter(self, **constraints)
Filter(self, constraints) == KeepWithKeys(Fix(self, constraints), DOMAIN constraints)

\* the assignments of Chart.fix(**C)
ChartFix(self, constraints) == Fix(self, constraints)

\* the assignments of Chart.filter(**constraints): self.fix, then filter on
\* the assignments of the chart it returned
ChartFilter(self, constraints) ==
    Filter(ChartFix(self, constraints), constraints)

RECURSIVE FetchUntilMissing(_, _)
\* a loop that stops at the first record without varname
FetchUntilMissing(self, varname) ==
    IF self = <<>> \/ varname \notin DOMAIN Head(self) THEN <<>>
    ELSE <<Head(self)[varname]>> \o FetchUntilMissing(Tail(self), varname)

RECURSIVE Fetch(_, _)
\* Assignments.fetch(self, varname), and Chart.fetch that calls it:
\* [asgn[varname] for asgn in self.assignments if varname in asgn]
Fetch(self, varname) ==
    IF self = <<>> THEN <<>>
    ELSE (IF varname \in DOMAIN Head(self) THEN <<Head(self)[varname]>>
          ELSE <<>>)
         \o Fetch(Tail(self), varname)

\* a call that stores what it computed in the newest container, in place
AllocatedInPlace(h, asnlist) == [h EXCEPT ![Len(h)] = asnlist]

\* the containers after a call returned a new one: Assignments(asnlist) in
\* combine, _fix and filter, self.__class__(self.chooser) in Chart.fix
Allocated(h, asnlist) == Append(h, asnlist)

\* an Assignments with up to MaxLen records, before any call
AlgInit ==
    /\ asn \in Collections
    /\ cur = asn
    /\ hist = <<>>
    /\ heap = <<asn>>
    /\ out = 1
    /\ flow = [sites |-> <<>>, stop |-> {}, ret |-> "None", mode |-> "plain"]
    /\ env = FALSE
    /\ pc = "while"
    /\ stack = << <<>> >>
    /\ results = <<>>
    /\ chosen = <<>>
    /\ choosit = 0
    /\ returned = <<>>
    /\ exc = "none"
    /\ completed = <<>>
    /\ popped = <<>>
    /\ stackAlts = << <<>> >>
    /\ chosenAlts = <<>>
    /\ resultAlts = <<>>
    /\ forked = <<>>
    /\ methods = <<>>
    /\ todo = <<>>
    /\ chartAssignments = <<>>
    /\ origin = <<>>
    /\ frames = <<>>
    /\ inres = <<>>
    /\ single = FALSE
    /\ taken = <<>>

\* self.combine(other), or self * other, on the Assignments first given
DoCombine ==
    /\ hist = <<>>
    /\ \E other \in ({"dict"} \X Records) \cup ({"Assignments"} \X Collections) :
           /\ cur' = Combine(cur, other)
           /\ hist' = Append(hist, <<"combine", other, FALSE>>)
           /\ heap' = Allocated(Append(heap, AsAssignments(other)), cur')
    /\ out' = Len(heap')
    /\ UNCHANGED <<asn, chooserVars, chartVars, singleVars>>

\* fix(**constraints) on the object the last call returned (a Chart or its
\* Assignments), first or second call of a chain
DoFix ==
    /\ Len(hist) < 2
    /\ \A i \in 1 .. Len(hist) : hist[i][1] \in {"fix", "filter"}
    /\ \E constraints \in Records, chart \in BOOLEAN :
           /\ cur' = IF chart THEN ChartFix(cur, constraints)
                     ELSE Fix(cur, constraints)
           /\ hist' = Append(hist, <<"fix", constraints, chart>>)
    /\ heap' = Allocated(heap, cur')
    /\ out' = Len(heap')
    /\ UNCHANGED <<asn, chooserVars, chartVars, singleVars>>

\* filter(**constraints) on the object the last call returned
DoFilter ==
    /\ Len(hist) < 2
    /\ \A i \in 1 .. Len(hist) : hist[i][1] \in {"fix", "filter"}
    /\ \E constraints \in Records, chart \in BOOLEAN :
           /\ cur' = IF chart THEN ChartFilter(cur, constraints)
                     ELSE Filter(cur, constraints)
           /\ hist' = Append(hist, <<"filter", constraints, chart>>)
    /\ heap' = Allocated(heap, cur')
    /\ out' = Len(heap')
    /\ UNCHANGED <<asn, chooserVars, chartVars, singleVars>>

\* fetch(varname) on the object the last call returned; what it returns is a
\* list of values, on which no further call is made
DoFetch ==
    /\ Len(hist) < 2
    /\ \A i \in 1 .. Len(hist) : hist[i][1] \in {"fix", "filter"}
    /\ \E varname \in Names, chart \in BOOLEAN :
           /\ cur' = Fetch(cur, varname)
           /\ hist' = Append(hist, <<"fetch", varname, chart>>)
    /\ out' = 0
    /\ UNCHANGED heap
    /\ UNCHANGED <<asn, chooserVars, chartVars, singleVars>>

AlgNext ==
    \/ DoCombine
    \/ DoFix
    \/ DoFilter
    \/ DoFetch

AlgSpec == AlgInit /\ [][AlgNext]_vars

(***************************************************************************)
(* Chart: create, _collect and execute.  A Chart has one or two methods    *)
(* marked by @flow.  The body of a method is a flow as above, whose k-th   *)
(* choose() binds the k-th of its names:                                   *)
(*                                                                         *)
(*   @flow                                                                 *)
(*   def f(self, chooser):                                                 *)
(*       x = chooser.choose(...); y = chooser.choose(...)                  *)
(*       # subs, as in CompositeChart.h:                                   *)
(*       #   f_res = self.execute(self.sub1); g_res = self.execute(...)    *)
(*       #   return list(f_res * g_res)                                    *)
(*       return ret                     # "pair": [vars(), 0]              *)
(*                                                                         *)
(* A Python value is <<type, payload>>; the payload of a dict is a         *)
(* function from its keys, that of a list the sequence of its elements.    *)
(***************************************************************************)
\* the names of the marked methods, in alphabetical order
Alphabet == <<"f", "g">>

ChartSites == {s \in Sites : \A k \in 1 .. Len(s) : s[k] \in {<<1>>, <<0, 1>>}}

ChartRets == {"None", "0", "[]", "{}", "vars", "pair"}

\* the bodies that call no self.execute
SimpleBodies ==
    [sites : ChartSites, stop : {{}}, ret : ChartRets, mode : {"plain"},
     names : {<<"x", "y">>}]

\* the bodies that call self.execute on their subs, after at most one choose()
CompositeBodies ==
    [sites : {s \in ChartSites : \A k \in 1 .. Len(s) : k = 1 /\ s[k] = <<0, 1>>},
     stop : {{}}, ret : {"product"}, mode : {"plain"}, names : {<<"x", "y">>}]

\* the functions handed to self.execute, as CompositeChart.f and g
SubFlows ==
    [sites : {s \in ChartSites : s # <<>> /\ \A k \in 1 .. Len(s) : s[k] = <<0, 1>>},
     stop : {{}}, ret : {"vars", "None"}, mode : {"plain"},
     names : {<<"x", "y">>, <<"a", "b">>}]

MethodNames == {Alphabet[i] : i \in 1 .. Len(Alphabet)}

SimpleMethods == [name : MethodNames, body : SimpleBodies, subs : {<<>>}]

CompositeMethods ==
    [name : MethodNames, body : CompositeBodies,
     subs : {ss \in SeqsUpTo(SubFlows, 2) : ss # <<>>}]

\* the classes: one method of any kind, or two simple methods of different
\* names in either order of definition
Charts ==
    {<<m>> : m \in SimpleMethods \cup CompositeMethods}
        \cup {ms \in SimpleMethods \X SimpleMethods : ms[1].name # ms[2].name}

\* the name the i-th choose() of the body f binds
VarName(f, i) == f.names[((i - 1) % Len(f.names)) + 1]

\* vars() in the body f after the choices p
Vars(f, p) ==
    LET local == {VarName(f, i) : i \in 1 .. Len(p)}
        Bound(k) == CHOOSE i \in 1 .. Len(p) :
                        /\ VarName(f, i) = k
                        /\ \A j \in (i + 1) .. Len(p) : VarName(f, j) # k
    IN  <<"dict", [k \in {"self", "chooser"} \cup local |->
                     IF k = "self" THEN "chart"
                     ELSE IF k = "chooser" THEN "Chooser"
                     ELSE p[Bound(k)]]>>

\* the Python value of the entry res of apply's results, returned by f
PyValue(f, res) ==
    CASE res[1] = "0" -> <<"int", 0>>
      [] res[1] = "''" -> <<"str", "">>
      [] res[1] = "[]" -> <<"list", <<>> >>
      [] res[1] = "{}" -> <<"dict", <<>> >>
      [] res[1] = "vars" -> Vars(f, res[2])
      [] res[1] = "pair" -> <<"list", <<Vars(f, res[2]), <<"int", 0>> >> >>
      [] res[1] = "list" -> <<"list", res[3]>>
      [] OTHER -> <<"None", 0>>

PyValues(f, rs) == [k \in 1 .. Len(rs) |-> PyValue(f, rs[k])]

\* the dict d without the keys "chooser" and "self"
Stripped(d) == [k \in DOMAIN d \ {"chooser", "self"} |-> d[k]]

\* a loop body that appends the dict also when nothing is left of it
CollectResultKeepsEmpty(asnlist, result) ==
    IF result[1] = "list" THEN asnlist \o result[2]
    ELSE IF result[1] = "dict" THEN Append(asnlist, <<"dict", Stripped(result[2])>>)
    ELSE Append(asnlist, result)

\* the body of the loop of _collect for one result
CollectResult(asnlist, result) ==
    IF result[1] = "list" THEN asnlist \o result[2]
    ELSE IF result[1] = "dict"
         THEN IF DOMAIN Stripped(result[2]) # {}
              THEN Append(asnlist, <<"dict", Stripped(result[2])>>)
              ELSE asnlist
    ELSE Append(asnlist, result)

RECURSIVE CollectAll(_, _)
\* Chart._collect(results) on self.assignments = asnlist
CollectAll(asnlist, rs) ==
    IF rs = <<>> THEN asnlist
    ELSE CollectAll(CollectResult(asnlist, Head(rs)), Tail(rs))

RECURSIVE Origins(_, _, _)
\* for each element that _collect adds for the results rs: the method name
\* and the alternatives of the replay that returned the result
Origins(name, rs, as) ==
    IF rs = <<>> THEN <<>>
    ELSE [i \in 1 .. Len(CollectResult(<<>>, Head(rs))) |-> <<name, Head(as)>>]
         \o Origins(name, Tail(rs), Tail(as))

\* a loop over the methods in the order the class body defines them
DirAsDefined(ms) == [i \in 1 .. Len(ms) |-> ms[i].name]

\* the names of the marked methods among dir(self): dir() lists the names of
\* an object in alphabetical order
Dir(ms) == SelectSeq(Alphabet, LAMBDA n : \E i \in 1 .. Len(ms) : ms[i].name = n)

\* the dicts of a collection, and the collection of some dicts
Payloads(coll) == [i \in 1 .. Len(coll) |-> coll[i][2]]

Dicts(rs) == [i \in 1 .. Len(rs) |-> <<"dict", rs[i]>>]

\* f_res * g_res
Product(fres, gres) ==
    Dicts(Combine(Payloads(fres), <<"Assignments", Payloads(gres)>>))

\* the list a composite body returns: list(f_res * g_res), list(f_res)
\* with one sub
Composite(rs) == IF Len(rs) = 1 THEN rs[1] ELSE Product(rs[1], rs[2])

\* an apply that pushes its root on the stack of the apply it was called under
SharedStack(callerStack) == Append(callerStack, <<>>)

\* the stack of an apply that starts: stack = [[]], a list of its own,
\* whatever stack its caller runs on
OwnStack(callerStack) == << <<>> >>

\* the variables of an apply that starts on the flow f
StartApply(f) ==
    /\ flow' = f
    /\ env' = FALSE
    /\ pc' = "while"
    /\ stack' = OwnStack(stack)
    /\ results' = <<>>
    /\ chosen' = <<>>
    /\ choosit' = 0
    /\ returned' = <<>>
    /\ completed' = <<>>
    /\ popped' = <<>>
    /\ stackAlts' = [i \in 1 .. Len(OwnStack(stack)) |-> <<>>]
    /\ chosenAlts' = <<>>
    /\ resultAlts' = <<>>
    /\ forked' = <<>>
    /\ UNCHANGED exc

\* a Chart at the loop of create, after self.assignments = Assignments([])
ChartInit ==
    /\ methods \in Charts
    /\ todo = Dir(methods)
    /\ chartAssignments = <<>>
    /\ origin = <<>>
    /\ frames = <<>>
    /\ inres = <<>>
    /\ single = FALSE
    /\ taken = <<>>
    /\ flow = [sites |-> <<>>, stop |-> {}, ret |-> "None", mode |-> "plain"]
    /\ env = FALSE
    /\ pc = "create"
    /\ stack = <<>>
    /\ results = <<>>
    /\ chosen = <<>>
    /\ choosit = 0
    /\ returned = <<>>
    /\ exc = "none"
    /\ completed = <<>>
    /\ popped = <<>>
    /\ stackAlts = <<>>
    /\ chosenAlts = <<>>
    /\ resultAlts = <<>>
    /\ forked = <<>>
    /\ asn = <<>>
    /\ cur = <<>>
    /\ hist = <<>>
    /\ heap = <<>>
    /\ out = 0

\* the method create's loop is at
Method == CHOOSE m \in Range(methods) : m.name = Head(todo)

\* create: the next name of dir(self) is a marked method f:
\* self.chooser.apply(f) starts
CreateApply ==
    /\ pc = "create"
    /\ todo # <<>>
    /\ StartApply(Method.body)
    /\ UNCHANGED <<assignmentVars, chartVars, singleVars>>

\* create: apply returned, self._collect(results), on to the next name
CreateCollect ==
    /\ UNCHANGED forked
    /\ pc = "returned"
    /\ frames = <<>>
    /\ todo # <<>>
    /\ LET rs == PyValues(flow, returned[1])
       IN  /\ chartAssignments' = CollectAll(chartAssignments, rs)
           /\ origin' = origin \o Origins(Head(todo), rs, resultAlts)
    /\ todo' = Tail(todo)
    /\ pc' = "create"
    /\ UNCHANGED <<flow, env, stack, results, chosen, choosit, returned, exc,
                   completed, popped, alts, resultAlts>>
    /\ UNCHANGED <<assignmentVars, methods, frames, inres, singleVars>>

\* create: dir(self) is exhausted
CreateReturn ==
    /\ UNCHANGED forked
    /\ pc = "create"
    /\ todo = <<>>
    /\ methods # <<>>
    /\ pc' = "created"
    /\ UNCHANGED <<flow, env, stack, results, chosen, choosit, returned, exc,
                   completed, popped, alts, resultAlts>>
    /\ UNCHANGED <<assignmentVars, chartVars, singleVars>>

\* the flow calls self.execute(sub): SubChart().create() starts the apply of
\* the sub-chart's one flow, while the apply the flow runs under waits
ExecuteCall ==
    /\ pc = "flow"
    /\ ~AtChoose(flow, Picks)
    /\ Len(inres) < Len(Subs)
    /\ frames' = <<[flow |-> flow, env |-> env, stack |-> stack,
                    results |-> results, chosen |-> chosen, choosit |-> choosit,
                    returned |-> returned, completed |-> completed,
                    popped |-> popped, stackAlts |-> stackAlts,
                    chosenAlts |-> chosenAlts, resultAlts |-> resultAlts,
                    forked |-> forked]>>
    /\ StartApply(Subs[Len(inres) + 1])
    /\ UNCHANGED <<assignmentVars, methods, todo, chartAssignments, origin, inres,
                   singleVars>>

\* the apply of the sub-chart returned: the sub-chart collects its results,
\* execute returns subchart.assignments, the flow goes on
ExecuteReturn ==
    /\ pc = "returned"
    /\ frames # <<>>
    /\ inres' = Append(inres, CollectAll(<<>>, PyValues(flow, returned[1])))
    /\ LET outer == frames[1]
       IN  /\ flow' = outer.flow
           /\ env' = outer.env
           /\ stack' = outer.stack
           /\ results' = outer.results
           /\ chosen' = outer.chosen
           /\ choosit' = outer.choosit
           /\ returned' = outer.returned
           /\ completed' = outer.completed
           /\ popped' = outer.popped
           /\ stackAlts' = outer.stackAlts
           /\ chosenAlts' = outer.chosenAlts
           /\ resultAlts' = outer.resultAlts
           /\ forked' = outer.forked
    /\ frames' = <<>>
    /\ pc' = "flow"
    /\ UNCHANGED <<exc, assignmentVars, methods, todo, chartAssignments, origin,
                   singleVars>>

\* the composite body returns list(f_res * g_res) to apply, which appends it
CompositeReturn ==
    /\ UNCHANGED forked
    /\ pc = "flow"
    /\ ~AtChoose(flow, Picks)
    /\ Subs # <<>>
    /\ Len(inres) = Len(Subs)
    /\ results' = Collect(results, <<"list", Picks, Composite(inres)>>)
    /\ completed' = Append(completed, chosenAlts)
    /\ resultAlts' = Append(resultAlts, chosenAlts)
    /\ inres' = <<>>
    /\ pc' = "while"
    /\ UNCHANGED <<flow, env, stack, chosen, choosit, returned, exc, popped, alts>>
    /\ UNCHANGED <<assignmentVars, methods, todo, chartAssignments, origin, frames,
                   singleVars>>

ChartNext ==
    \/ CreateApply
    \/ CreateCollect
    \/ CreateReturn
    \/ ExecuteCall
    \/ ExecuteReturn
    \/ CompositeReturn
    \/ Pop
    \/ ChooseReplay
    \/ ChooseFork
    \/ FlowReturn
    \/ ApplyReturn

ChartSpec == ChartInit /\ [][ChartNext]_vars

(***************************************************************************)
(* The choice tree of a flow: what the flow does after each sequence of    *)
(* choices, whatever apply does.  The flows of mode "impure" have no       *)
(* choice tree: their choices are not a function of the choice prefix.     *)
(***************************************************************************)
HasTree(f) == f.mode # "impure"

\* the tree has no infinite branch: the flow does not loop, or it loops over a
\* call site that offers nothing but values that stop it
FiniteTree(f) ==
    \/ f.mode # "loop"
    \/ f.sites = <<>>
    \/ \E k \in 1 .. Len(f.sites) : Range(f.sites[k]) \subseteq f.stop

RECURSIVE LeavesFrom(_, _, _, _)
\* the leaves of the tree (where the flow returns or raises) below the choices p,
\* through the alternatives i.. of the list offered at p, in declared order; a
\* leaf is named by the alternatives taken (a), as a list may repeat a value
LeavesFrom(f, p, a, i) ==
    LET cs == Choices(f, p, FALSE)
    IN  IF i > Len(cs) THEN <<>>
        ELSE LET q == Append(p, cs[i])
                 b == Append(a, i)
             IN  (IF AtChoose(f, q) THEN LeavesFrom(f, q, b, 1) ELSE <<b>>)
                 \o LeavesFrom(f, p, a, i + 1)

\* the root-to-leaf choice sequences of the tree of f, in declared order
Leaves(f) == IF AtChoose(f, <<>>) THEN LeavesFrom(f, <<>>, <<>>, 1) ELSE << <<>> >>

RECURSIVE ValuesOf(_, _, _)
\* the values chosen along the first n of the alternatives a of the tree of f
ValuesOf(f, a, n) ==
    IF n = 0 THEN <<>>
    ELSE LET p == ValuesOf(f, a, n - 1)
         IN  Append(p, Choices(f, p, FALSE)[a[n]])

\* the tree of f has a leaf where the flow raises
RaisingLeaf(f) ==
    LET leaves == Leaves(f)
    IN  \E i \in 1 .. Len(leaves) : Raises(f, ValuesOf(f, leaves[i], Len(leaves[i])))

(***************************************************************************)
(* C1.  For a flow whose choice tree is finite, apply runs the flow to     *)
(* completion exactly once for every root-to-leaf choice sequence of the   *)
(* tree: a replay completes only on a leaf of the tree and on no leaf      *)
(* twice, and when apply returns every leaf has been completed, so the     *)
(* number of completed replays is the number of leaves.                    *)
(***************************************************************************)
C1_EveryPathOnce ==
    (HasTree(flow) /\ FiniteTree(flow)) =>
        LET leaves == Leaves(flow)
        IN  /\ Range(completed) \subseteq Range(leaves)
            /\ \A i, j \in 1 .. Len(completed) : completed[i] = completed[j] => i = j
            /\ pc = "returned" =>
                   /\ Range(completed) = Range(leaves)
                   /\ Len(completed) = Len(leaves)

\* apply has returned from a tree with leaves at depth 1 and at depth 2
C1_Witness ==
    /\ pc = "returned"
    /\ HasTree(flow)
    /\ Len(completed) >= 3
    /\ \E i, j \in 1 .. Len(completed) :
           Len(completed[i]) = 1 /\ Len(completed[j]) = 2

(***************************************************************************)
(* C2.  apply returns the results in depth-first path order, every branch  *)
(* point visiting its alternatives in reverse declared order: of two       *)
(* results, the paths first differ at a choice point, and the result that  *)
(* comes first took the alternative that stands later in the list offered  *)
(* there.  x = choose([0,1]); y = choose([0,1]) gives (1,1), (1,0), (0,1), *)
(* (0,0).                                                                  *)
(***************************************************************************)
\* the first position at which the sequences p and q differ
FirstDiff(p, q) ==
    CHOOSE k \in 1 .. Len(p) + 1 :
        /\ \A i \in 1 .. k - 1 : i <= Len(q) /\ p[i] = q[i]
        /\ k > Len(p) \/ k > Len(q) \/ p[k] # q[k]

\* the paths of a list of results
PathsOf(rs) == [i \in 1 .. Len(rs) |-> rs[i][2]]

\* the flow of the example: x = choose([0,1]); y = choose([0,1]); return ..
TwoByTwo(f) ==
    /\ f.sites = << <<0, 1>>, <<0, 1>> >>
    /\ f.stop = {}
    /\ f.mode = "plain"
    /\ f.ret \notin {"None", "raise"}

\* C2: results come in depth-first order, later alternatives first
C2_ReverseDeclaredOrder ==
    /\ HasTree(flow) =>
           /\ Len(resultAlts) = Len(results)
           /\ \A i \in 1 .. Len(results) :
                  \* result i is the result of the path that took resultAlts[i]
                  /\ Len(resultAlts[i]) = Len(results[i][2])
                  /\ results[i][2] = ValuesOf(flow, resultAlts[i], Len(resultAlts[i]))
           /\ \A i, j \in 1 .. Len(results) :
                  i < j =>
                      LET a == resultAlts[i]
                          b == resultAlts[j]
                          k == FirstDiff(a, b)
                      IN  k <= Len(a) /\ k <= Len(b) /\ a[k] > b[k]
    /\ (pc = "returned" /\ TwoByTwo(flow)) =>
           PathsOf(returned[1]) = << <<1, 1>>, <<1, 0>>, <<0, 1>>, <<0, 0>> >>
    /\ pc = "returned" => returned[1] = results

\* apply has returned the four results of the example
C2_Witness ==
    /\ pc = "returned"
    /\ TwoByTwo(flow)
    /\ Len(returned[1]) = 4

(***************************************************************************)
(* C3.  apply terminates, with an empty backlog and the result list        *)
(* returned, if and only if the choice tree of the flow is finite: for a   *)
(* finite tree (of a flow that does not raise) the loop test eventually    *)
(* finds the backlog empty and apply returns results; for a tree with an   *)
(* infinite branch the loop test never finds the backlog empty and apply   *)
(* never returns.  The backlog is read where apply reads it: at the test   *)
(* of "while stack".                                                       *)
(***************************************************************************)
C3_TerminatesIffFinite ==
    /\ (HasTree(flow) /\ FiniteTree(flow) /\ ~RaisingLeaf(flow)) =>
           <>(pc = "returned" /\ stack = <<>> /\ returned = <<results>>)
    /\ (HasTree(flow) /\ ~FiniteTree(flow)) =>
           [](pc # "returned" /\ (pc = "while" => stack # <<>>))

\* apply has returned from a finite tree after five replays or more
C3_Witness ==
    /\ pc = "returned"
    /\ stack = <<>>
    /\ HasTree(flow)
    /\ flow.mode = "loop"
    /\ Len(popped) >= 5

(***************************************************************************)
(* C4.  When choose(choices) is called while recorded values remain in the *)
(* choice path, it returns the next recorded value if that value is in     *)
(* choices (the flow goes on with it); if it is not, ChooserException is    *)
(* raised, apply does not catch it, and it ends the whole call of apply:   *)
(* no step follows and no result list is returned.                         *)
(***************************************************************************)
\* the running replay is at a choose() call with a recorded value left
ReplayCall == pc = "flow" /\ AtChoose(flow, Picks) /\ choosit < Len(chosen)

\* C4: a replayed value is returned if in choices, else ChooserException ends apply
C4_ReplayOrDeterminismViolation ==
    /\ [][ReplayCall =>
             LET c == chosen[choosit + 1]
             IN  IF c \in Range(Choices(flow, Picks, env))
                 THEN /\ pc' = "flow"
                      /\ Picks' = Append(Picks, c)
                      /\ exc' = "none"
                 ELSE /\ pc' = "raised"
                      /\ exc' = "ChooserException"
                      /\ returned' = <<>>]_vars
    /\ [][pc = "raised" => FALSE]_vars
    /\ [](exc = "ChooserException" => (pc = "raised" /\ returned = <<>>))

\* ChooserException has ended an apply that had collected results and had
\* paths left on its stack
C4_Witness ==
    /\ exc = "ChooserException"
    /\ choosit < Len(chosen)
    /\ chosen[choosit + 1] \notin Range(Choices(flow, Picks, env))
    /\ results # <<>>
    /\ stack # <<>>

(***************************************************************************)
(* C5.  A replay that completes normally appends exactly one element to    *)
(* the result list if its return value is not None and nothing if it is    *)
(* None; the values that are falsy but not None (0, '', {}, []) are        *)
(* appended like any other.  So the results are as many as the completed   *)
(* replays that returned something other than None.                        *)
(***************************************************************************)
\* the running replay is past its last choose() call and returns
ReturnPoint == pc = "flow" /\ ~AtChoose(flow, Picks) /\ ~Raises(flow, Picks)

\* the tag of the value returned on the leaf reached by the alternatives a
LeafTag(f, a) == ReturnValue(f, ValuesOf(f, a, Len(a)))[1]

\* C5: a completed replay adds one result unless it returned None
C5_OnlyNoneIsDropped ==
    /\ [][ReturnPoint =>
             LET tag == IF EndsLow(Picks) THEN flow.ret ELSE "vars"
             IN  IF tag = "None"
                 THEN results' = results
                 ELSE /\ Len(results') = Len(results) + 1
                      /\ SubSeq(results', 1, Len(results)) = results
                      /\ Last(results') = <<tag, Picks>>]_vars
    /\ [](HasTree(flow) =>
            Len(results) = Cardinality({i \in 1 .. Len(completed) :
                                           LeafTag(flow, completed[i]) # "None"}))

\* apply has returned the empty dict of two replays, with a result that is not
\* falsy between or beside them
C5_Witness ==
    /\ pc = "returned"
    /\ flow.ret = "{}"
    /\ \E i, j, k \in 1 .. Len(results) :
           /\ i # j
           /\ results[i][1] = "{}"
           /\ results[j][1] = "{}"
           /\ results[k][1] = "vars"

(***************************************************************************)
(* C6.  When a replay of the flow raises an exception other than the       *)
(* unwind signal, apply stops at once: no further path is popped or        *)
(* replayed, the exception reaches the caller of apply, and the caller     *)
(* receives none of the results collected by earlier replays.              *)
(***************************************************************************)
\* the running replay is past its last choose() call and raises
RaisePoint == pc = "flow" /\ ~AtChoose(flow, Picks) /\ Raises(flow, Picks)

\* C6: an exception of the flow ends apply at once, with no result list
C6_FlowExceptionAbortsApply ==
    /\ [][RaisePoint =>
             /\ pc' = "raised"
             /\ exc' = "FlowError"
             /\ returned' = <<>>
             /\ popped' = popped
             /\ stack' = stack]_vars
    /\ [][pc = "raised" => UNCHANGED <<popped, returned, pc, exc>>]_vars
    /\ [](exc = "FlowError" => (pc = "raised" /\ returned = <<>>))

\* the flow's exception has left an apply that had collected results and had
\* paths left on its stack
C6_Witness ==
    /\ exc = "FlowError"
    /\ pc = "raised"
    /\ results # <<>>
    /\ stack # <<>>
    /\ returned = <<>>

(***************************************************************************)
(* Claims on Assignments, checked under AlgSpec.                           *)
(***************************************************************************)
\* s is t restricted to the positions in K, in the order of t
Restricted(s, t, K) ==
    /\ Len(s) = Cardinality(K)
    /\ \A i \in K : s[Cardinality({j \in K : j <= i})] = t[i]

\* the last call was the first of its chain, and was method
FirstCall(method) == Len(hist) = 1 /\ hist[1][1] = method

(***************************************************************************)
(* C7.  combine(A, B) returns exactly len(A)*len(B) records; the record at *)
(* position i*len(B)+j (from 0) is A[i] overwritten by every key of B[j]:  *)
(* A-major, B-minor, and on a shared key the value of B wins.  So          *)
(* combine([{x:1}],[{x:2}]) = [{x:2}] and combine([{x:2}],[{x:1}]) =       *)
(* [{x:1}].                                                                *)
(***************************************************************************)
C7_CombineCrossProduct ==
    FirstCall("combine") =>
        LET A == asn
            B == IF hist[1][2][1] = "dict" THEN <<hist[1][2][2]>> ELSE hist[1][2][2]
        IN  /\ Len(cur) = Len(A) * Len(B)
            /\ \A i \in 0 .. Len(A) - 1 : \A j \in 0 .. Len(B) - 1 :
                   LET r == cur[i * Len(B) + j + 1]
                       a == A[i + 1]
                       b == B[j + 1]
                   IN  /\ DOMAIN r = DOMAIN a \cup DOMAIN b
                       /\ \A k \in DOMAIN b : r[k] = b[k]
                       /\ \A k \in DOMAIN a \ DOMAIN b : r[k] = a[k]
            /\ (A = <<[x |-> 1]>> /\ B = <<[x |-> 2]>>) => cur = <<[x |-> 2]>>
            /\ (A = <<[x |-> 2]>> /\ B = <<[x |-> 1]>>) => cur = <<[x |-> 1]>>

\* two records combined with two records, with a shared key on which the two
\* sides differ
C7_Witness ==
    /\ FirstCall("combine")
    /\ Len(asn) = 2
    /\ hist[1][2][1] = "Assignments"
    /\ Len(hist[1][2][2]) = 2
    /\ Len(cur) = 4
    /\ "x" \in DOMAIN asn[2] /\ "x" \in DOMAIN hist[1][2][2][1]
    /\ asn[2]["x"] # hist[1][2][2][1]["x"]
    /\ asn[1] # asn[2]

(***************************************************************************)
(* C8.  fix(constraints) keeps a record r if and only if for every key k   *)
(* of constraints that is also a key of r, r[k] = constraints[k]: a record *)
(* with none of the constrained keys is always kept, a record with a       *)
(* constrained key holding another value is always dropped.                *)
(***************************************************************************)
\* r does not violate the constraints C
Fits(r, C) == \A k \in DOMAIN C \cap DOMAIN r : r[k] = C[k]

\* C8: fix keeps exactly the records that violate no constraint
C8_FixKeepsWhatFits ==
    FirstCall("fix") =>
        LET C == hist[1][2]
        IN  /\ Restricted(cur, asn, {i \in 1 .. Len(asn) : Fits(asn[i], C)})
            /\ \A i \in 1 .. Len(asn) :
                   /\ DOMAIN asn[i] \cap DOMAIN C = {} =>
                          asn[i] \in Range(cur)
                   /\ (\E k \in DOMAIN C \cap DOMAIN asn[i] : asn[i][k] # C[k]) =>
                          Count(cur, asn[i]) < Count(asn, asn[i])

\* fix of two constraints has kept a record that lacks one of the keys and
\* dropped a record that holds another value
C8_Witness ==
    /\ FirstCall("fix")
    /\ DOMAIN hist[1][2] = Names
    /\ Len(asn) = 2
    /\ Len(cur) = 1
    /\ DOMAIN cur[1] = {"x"}
    /\ asn[1] # cur[1]

(***************************************************************************)
(* C9.  filter(C) returns exactly the records of fix(C) whose key set      *)
(* contains every key of C: every record of filter(C) is a record of       *)
(* fix(C) and has every key of C with the value C gives it, and every      *)
(* record of the collection that has all keys of C with these values is in *)
(* filter(C).                                                              *)
(***************************************************************************)
\* r has every key of C, with the value C gives it
Matches(r, C) == DOMAIN C \subseteq DOMAIN r /\ \A k \in DOMAIN C : r[k] = C[k]

\* C9: filter is fix restricted to the records that have every key
C9_FilterIsFixWithAllKeys ==
    FirstCall("filter") =>
        LET C == hist[1][2]
            fixed == Fix(asn, C)
        IN  /\ Restricted(cur, fixed,
                          {i \in 1 .. Len(fixed) : DOMAIN C \subseteq DOMAIN fixed[i]})
            /\ Range(cur) \subseteq Range(fixed)
            /\ \A i \in 1 .. Len(cur) : Matches(cur[i], C)
            /\ Restricted(cur, asn, {i \in 1 .. Len(asn) : Matches(asn[i], C)})

\* filter has dropped a record that fix keeps, and kept another
C9_Witness ==
    /\ FirstCall("filter")
    /\ Len(asn) = 2
    /\ Len(Fix(asn, hist[1][2])) = 2
    /\ Len(cur) = 1
    /\ DOMAIN hist[1][2] = Names

(***************************************************************************)
(* C10.  For any constraints C1, C2 and any collection, fix(C1).fix(C2)    *)
(* and fix(C2).fix(C1) have the same records and the same length, and      *)
(* both have the records of fix({**C1, **C2}) whenever C1 and C2 give the  *)
(* same value to every key they share; the same holds of filter.           *)
(***************************************************************************)
\* {**C1, **C2}
Merged(C1, C2) ==
    [k \in DOMAIN C1 \cup DOMAIN C2 |-> IF k \in DOMAIN C2 THEN C2[k] ELSE C1[k]]

\* C1 and C2 give the same value to every key they share
Agree(C1, C2) == \A k \in DOMAIN C1 \cap DOMAIN C2 : C1[k] = C2[k]

\* equal length and same members, as in test_fix_and_filter
SameRecords(s, t) == Len(s) = Len(t) /\ Range(s) = Range(t)

\* the last call was the second of a chain of two calls of method
Chained(method) == Len(hist) = 2 /\ hist[1][1] = method /\ hist[2][1] = method

\* C10 (amended): chained fix/filter commute, and equal the merge if C1, C2 agree
C10_ChainCommutesAndMergesIfAgreeing ==
    /\ Chained("fix") =>
           LET C1 == hist[1][2]
               C2 == hist[2][2]
           IN  /\ SameRecords(cur, Fix(Fix(asn, C2), C1))
               /\ Agree(C1, C2) => SameRecords(cur, Fix(asn, Merged(C1, C2)))
    /\ Chained("filter") =>
           LET C1 == hist[1][2]
               C2 == hist[2][2]
           IN  /\ SameRecords(cur, Filter(Filter(asn, C2), C1))
               /\ Agree(C1, C2) => SameRecords(cur, Filter(asn, Merged(C1, C2)))

\* the claim as it was made: the merged constraints give the same records for
\* any C1 and C2
C10_AnyConstraintsMerge ==
    /\ Chained("fix") =>
           LET C1 == hist[1][2]
               C2 == hist[2][2]
           IN  /\ SameRecords(cur, Fix(Fix(asn, C2), C1))
               /\ SameRecords(cur, Fix(asn, Merged(C1, C2)))
    /\ Chained("filter") =>
           LET C1 == hist[1][2]
               C2 == hist[2][2]
           IN  /\ SameRecords(cur, Filter(Filter(asn, C2), C1))
               /\ SameRecords(cur, Filter(asn, Merged(C1, C2)))

\* fix(x=..).fix(y=..), as in test_fix_and_filter, has dropped a record at
\* each call and kept one
C10_Witness ==
    /\ Chained("fix")
    /\ DOMAIN hist[1][2] = {"x"}
    /\ DOMAIN hist[2][2] = {"y"}
    /\ Len(asn) = 2
    /\ Len(Fix(asn, hist[1][2])) = 1
    /\ Len(cur) = 1

(***************************************************************************)
(* C11.  fetch                                                             *)
(***************************************************************************)
\* the positions of the records of t that have the key name
Having(t, name) == {i \in 1 .. Len(t) : name \in DOMAIN t[i]}

\* C11: fetch(name) returns, in collection order, the value of name from each
\* record that contains name and skips the others: after a first call
\* fetch(name) the list returned has one entry for each record of the
\* collection that has name, the k-th entry being the value of name in the
\* k-th such record; its length is the number of records that contain name.
C11_FetchValuesInOrder ==
    FirstCall("fetch") =>
        LET name == hist[1][2]
            K == Having(asn, name)
        IN  /\ Len(cur) = Cardinality(K)
            /\ \A i \in K : cur[Cardinality({j \in K : j <= i})] = asn[i][name]

\* a fetch that skipped the first record and took its value from the second
C11_Witness ==
    /\ FirstCall("fetch")
    /\ Len(asn) = 2
    /\ Len(cur) = 1
    /\ hist[1][2] \notin DOMAIN asn[1]
    /\ hist[1][2] \in DOMAIN asn[2]

(***************************************************************************)
(* Claims on Chart, checked under ChartSpec.                               *)
(***************************************************************************)
\* what one result adds to the collection
Contribution(v) ==
    IF v[1] = "list" THEN v[2]
    ELSE IF v[1] = "dict"
         THEN LET rest == {k \in DOMAIN v[2] : k # "chooser" /\ k # "self"}
              IN  IF rest = {} THEN <<>> ELSE << <<"dict", [k \in rest |-> v[2][k]]>> >>
    ELSE <<v>>

RECURSIVE Flat(_)
\* the concatenation of the sequences of ss
Flat(ss) == IF ss = <<>> THEN <<>> ELSE Head(ss) \o Flat(Tail(ss))

\* create is about to collect the results that apply returned for a method
AtCollect == pc = "returned" /\ frames = <<>> /\ todo # <<>>

(***************************************************************************)
(* C12.  _collect                                                          *)
(***************************************************************************)
\* C12: Chart.create normalizes each result before storing it: when create
\* collects the results of a method, the collection grows by, for each
\* result in order: the elements of the result in order if it is a list;
\* the dict without the reserved keys 'chooser' and 'self', as one record,
\* if it is a dict and something is left of it, and nothing if nothing is
\* left; the value itself, unchanged, if it is anything else.
C12_CreateNormalizesResults ==
    [][AtCollect =>
          chartAssignments' =
              chartAssignments \o
                  Flat([k \in 1 .. Len(returned[1]) |->
                          Contribution(PyValue(flow, returned[1][k]))])]_vars

\* create has collected, from f, a dict that kept a key and a list of two
\* elements, and from g a dict that held the reserved keys only
C12_Witness ==
    /\ pc = "created"
    /\ Len(methods) = 2
    /\ methods[1].name = "f"
    /\ methods[1].body.sites = << <<0, 1>> >>
    /\ methods[1].body.ret = "pair"
    /\ methods[2].body.sites = <<>>
    /\ methods[2].body.ret = "vars"
    /\ chartAssignments =
           << <<"dict", [x |-> 1]>>,
              <<"dict", [self |-> "chart", chooser |-> "Chooser", x |-> 0]>>,
              <<"int", 0>> >>

(***************************************************************************)
(* C13.  The order of the records of create.                               *)
(***************************************************************************)
\* the position of the method named n in the class body, and of n in the
\* alphabetical order of the names
Registered(n) == CHOOSE i \in 1 .. Len(methods) : methods[i].name = n

Alphabetical(n) == CHOOSE i \in 1 .. Len(Alphabet) : Alphabet[i] = n

\* the records of one method keep the order in which apply found their paths:
\* of two records of different paths, the earlier took the later alternative
\* where the paths part
InDiscoveryOrder ==
    \A i, j \in 1 .. Len(origin) :
        (i < j /\ origin[i][1] = origin[j][1] /\ origin[i][2] # origin[j][2]) =>
            LET a == origin[i][2]
                b == origin[j][2]
                k == FirstDiff(a, b)
            IN  k <= Len(a) /\ k <= Len(b) /\ a[k] > b[k]

\* C13: Chart.create concatenates the normalized results of all marked
\* methods in the alphabetical order of their names, the order of dir(self):
\* of two methods, every record of the one whose name sorts first precedes
\* every record of the other, in whatever order the class defines them; and
\* within one method the records keep the path-discovery order of apply.
C13_RecordsInNameOrder ==
    /\ Len(origin) = Len(chartAssignments)
    /\ \A i, j \in 1 .. Len(origin) :
           Alphabetical(origin[i][1]) < Alphabetical(origin[j][1]) => i < j
    /\ InDiscoveryOrder

\* C13 as stated: the records come in registration order, for two methods f
\* registered before g every record of f precedes every record of g,
\* whatever the names of f and g are.
C13_RecordsInRegistrationOrder ==
    /\ Len(origin) = Len(chartAssignments)
    /\ \A i, j \in 1 .. Len(origin) :
           Registered(origin[i][1]) < Registered(origin[j][1]) => i < j
    /\ InDiscoveryOrder

\* create has returned on a class that defines g before f, with two records
\* of each: those of f come first
C13_Witness ==
    /\ pc = "created"
    /\ Len(methods) = 2
    /\ methods[1].name = "g"
    /\ methods[2].name = "f"
    /\ [i \in 1 .. Len(origin) |-> origin[i][1]] = <<"f", "f", "g", "g">>
    /\ origin[1][2] # origin[2][2]
    /\ origin[3][2] # origin[4][2]

(***************************************************************************)
(* C14.  No operation changes its receiver or its argument.                *)
(***************************************************************************)
\* C14: combine, fix, filter and fetch on a collection, and fix, filter and
\* fetch on a Chart, never mutate in place: at every call of a chain, every
\* container that existed before the call (the receiver, the receivers of
\* the calls before it) holds the same records in the same order after it,
\* the argument collection of combine holds the records it was given, and
\* fix, filter and combine return a new container, distinct from the
\* receiver and from every container that existed.
C14_NoMutationInPlace ==
    [][hist' # hist =>
          /\ \A id \in 1 .. Len(heap) : heap'[id] = heap[id]
          /\ heap'[1] = asn /\ asn' = asn
          /\ hist'[Len(hist')][1] = "combine" =>
                 heap'[Len(heap) + 1] = AsAssignments(hist'[Len(hist')][2])
          /\ hist'[Len(hist')][1] # "fetch" =>
                 /\ out' # out
                 /\ out' > Len(heap)
                 /\ heap'[out'] = cur']_vars

\* a second call on a Chart that dropped a record that the first call kept:
\* three containers of different lengths exist
C14_Witness ==
    /\ Len(hist) = 2
    /\ hist[1][3] /\ hist[2][3]
    /\ Len(heap) = 3
    /\ out = 3
    /\ Len(heap[1]) > Len(heap[2])
    /\ Len(heap[2]) > Len(heap[3])

(***************************************************************************)
(* C15.  Single choice mode, checked under SingleSpec.                     *)
(***************************************************************************)
\* the flow is at a choose() call of a Chooser in single choice mode
AtSingleChoose == pc = "flow" /\ single /\ AtChoose(flow, taken)

\* no step forks, raises _ChooserEscape, or touches a backlog or a result list
NoSearchStep ==
    /\ UNCHANGED <<stack, results, popped, completed, chosen, choosit>>
    /\ exc' # "_ChooserEscape"

\* C15: a Chooser constructed without a backlog (single choice mode) returns
\* the first element of the domain at every choose call whose domain is not
\* empty, and raises IndexError, which ends the run, at a call whose domain
\* is empty; it never forks, never raises the unwind signal and never
\* touches any backlog.  So a flow run with it executes one path, the one
\* that takes the first alternative at every choice point: the values it
\* was given are the first alternatives of the tree, and if the flow
\* returns, it returns the value of the first leaf of its tree.
C15_SingleChoiceTakesFirst ==
    /\ [][/\ NoSearchStep
          /\ AtSingleChoose =>
                 LET choices == Choices(flow, taken, env)
                 IN  IF choices = <<>>
                     THEN pc' = "raised" /\ exc' = "IndexError" /\ taken' = taken
                     ELSE pc' = "flow" /\ taken' = Append(taken, choices[1])]_vars
    /\ [](taken = ValuesOf(flow, [i \in 1 .. Len(taken) |-> 1], Len(taken)))
    /\ []((pc = "returned" /\ FiniteTree(flow)) =>
             /\ Leaves(flow)[1] = [i \in 1 .. Len(taken) |-> 1]
             /\ returned = <<ReturnValue(flow, taken)>>)

\* C15 as stated: the Chooser returns the first element of the domain at
\* every choose call.
C15_EveryChooseReturnsFirst ==
    [][AtSingleChoose =>
          /\ pc' = "flow"
          /\ Len(taken') = Len(taken) + 1
          /\ Choices(flow, taken, env) # <<>>
          /\ Last(taken') = Choices(flow, taken, env)[1]]_vars

\* a flow called with such a Chooser returned after two choose calls that
\* each offered two different values
C15_Witness ==
    /\ single
    /\ pc = "returned"
    /\ Len(taken) = 2
    /\ flow.mode = "plain"
    /\ \A k \in 1 .. 2 : Len(flow.sites[k]) = 2 /\ flow.sites[k][1] # flow.sites[k][2]
    /\ taken = <<flow.sites[1][1], flow.sites[2][1]>>

(***************************************************************************)
(* C16.  The backlog holds the unexplored siblings of the current path.    *)
(***************************************************************************)
RECURSIVE LowerSiblings(_)
\* the number of alternatives before those taken along the path a: the
\* siblings of the nodes of the path that are pushed and not yet popped
LowerSiblings(a) ==
    IF a = <<>> THEN 0 ELSE (Last(a) - 1) + LowerSiblings(Front(a))

\* the number of alternatives the tree of f offers after the choices p
Children(f, p) == IF AtChoose(f, p) THEN Len(Choices(f, p, FALSE)) ELSE 0

\* the step is a fork: a choose() call with no recorded value left
ForkStep ==
    /\ pc = "flow"
    /\ AtChoose(flow, Picks)
    /\ choosit = Len(chosen)

\* C16: in every reachable state of apply the backlog holds nothing but
\* unexplored siblings of the current exploration frontier: before the first
\* pop the root; after it, each path on the backlog is an alternative, not
\* yet popped, of a fork along the path popped last (an alternative before
\* the one that path took, or, once the replay of that path has forked, one
\* of its own alternatives), no path is there twice, and so the size of the
\* backlog is at most the number of those siblings.  The backlog grows only
\* in a fork step, and every pop is followed by exactly one replay of the
\* flow before the next pop.
C16_BacklogIsFrontier ==
    /\ [](/\ Len(stackAlts) = Len(stack)
          /\ popped = <<>> => stack = << <<>> >> /\ pc = "while"
          /\ popped # <<>> =>
                 /\ \A i \in 1 .. Len(stack) :
                        LET e == stackAlts[i]
                            n == Len(e)
                        IN  /\ n >= 1 /\ n <= Len(chosenAlts) + 1
                            /\ \A k \in 1 .. n - 1 : e[k] = chosenAlts[k]
                            /\ n <= Len(chosenAlts) => e[n] < chosenAlts[n]
                            /\ n = Len(chosenAlts) + 1 => pc # "flow"
                            /\ \A j \in 1 .. Len(stack) : stackAlts[j] = e => j = i
                            /\ HasTree(flow) =>
                                   /\ e[n] <= Children(flow, ValuesOf(flow, e, n - 1))
                                   /\ stack[i] = ValuesOf(flow, e, n)
                 /\ HasTree(flow) =>
                        Len(stack) <= LowerSiblings(chosenAlts)
                                        + (IF pc = "flow" THEN 0
                                           ELSE Children(flow, chosen))
          /\ Len(popped) = Len(completed) + Len(forked)
                              + (IF pc \in {"flow", "raised"} THEN 1 ELSE 0))
    /\ [][/\ Len(stack') > Len(stack) => ForkStep
          /\ popped' # popped =>
                 /\ pc = "while" /\ pc' = "flow"
                 /\ Len(popped') = Len(popped) + 1
                 /\ Len(stack') = Len(stack) - 1
          /\ (pc = "flow" /\ pc' # "flow") =>
                 Len(completed') + Len(forked') + (IF pc' = "raised" THEN 1 ELSE 0)
                     = Len(completed) + Len(forked) + 1]_vars

\* inside a replay at depth two, with an unexplored sibling at both depths
C16_Witness ==
    /\ pc = "flow"
    /\ chosenAlts = <<2, 2>>
    /\ stackAlts = << <<1>>, <<2, 1>> >>
    /\ flow.mode = "plain"

(***************************************************************************)
(* C17.  The fork step.                                                    *)
(***************************************************************************)
\* C17: choose(domain) called in a replay whose recorded path p is exhausted
\* pushes exactly len(domain) new paths onto the backlog, p extended by each
\* value of the domain, in the order of the domain (nothing when the domain
\* is empty); it leaves the paths already on the backlog and the results
\* collected unchanged; and it unwinds the replay: choose returns no value,
\* no code of the flow after the call runs in this replay, and the replay
\* contributes no result.
C17_ForkPushesAndUnwinds ==
    [][ForkStep =>
          LET domain == Choices(flow, Picks, env)
          IN  /\ Len(stack') = Len(stack) + Len(domain)
              /\ \A i \in 1 .. Len(stack) : stack'[i] = stack[i]
              /\ \A i \in 1 .. Len(domain) :
                     stack'[Len(stack) + i] = Append(chosen, domain[i])
              /\ UNCHANGED <<results, resultAlts, completed, returned>>
              /\ UNCHANGED <<chosen, choosit>>
              /\ pc' = "while"]_vars

\* a replay has just forked at depth two, with a path on the backlog and a
\* result collected before it
C17_Witness ==
    /\ pc = "while"
    /\ forked # <<>>
    /\ Last(forked) = <<2, 1>>
    /\ chosenAlts = <<2, 1>>
    /\ Len(stack) = 3
    /\ results # <<>>

(***************************************************************************)
(* C18.  Every path is pushed once, popped once and replayed once.  A path *)
(* is named by the alternatives it takes, as in C1.                        *)
(***************************************************************************)
RECURSIVE ForkingFrom(_, _, _)
\* the forking prefixes of the tree of f at and below the choices p, reached
\* by the alternatives a: the nodes where the flow calls choose()
ForkingFrom(f, p, a) ==
    IF ~AtChoose(f, p) THEN {}
    ELSE LET cs == Choices(f, p, FALSE)
         IN  {a} \cup UNION {ForkingFrom(f, Append(p, cs[i]), Append(a, i)) :
                                i \in 1 .. Len(cs)}

\* the replays that ended without an exception, as the alternatives taken
Replayed == completed \o forked

\* C18: every choice path is pushed to the backlog once, popped once and
\* consumed by exactly one replay.  In every state the replays that ended
\* and the paths on the backlog are pairwise distinct, no replay both
\* completed and forked, and the path being replayed is the one popped last.
\* When apply returns on a finite tree, the number of flow invocations (one
\* for each pop) is the number of nodes of the choice tree: the replays that
\* forked are exactly the forking prefixes of the tree, and those that
\* completed are exactly its complete paths.
C18_OnePopOneReplayPerNode ==
    /\ LET done == Range(Replayed)
           waiting == Range(stackAlts)
       IN  /\ Cardinality(done) = Len(completed) + Len(forked)
           /\ Cardinality(waiting) = Len(stackAlts)
           /\ done \cap waiting = {}
           /\ pc = "flow" => chosenAlts \notin done \cup waiting
    /\ popped # <<>> => Last(popped) = chosen
    /\ HasTree(flow) => chosen = ValuesOf(flow, chosenAlts, Len(chosenAlts))
    /\ (pc = "returned" /\ HasTree(flow) /\ FiniteTree(flow)) =>
           LET leaves == Leaves(flow)
               forking == ForkingFrom(flow, <<>>, <<>>)
           IN  /\ Range(forked) = forking
               /\ Range(completed) = Range(leaves)
               /\ Len(popped) = Cardinality(forking) + Len(leaves)

\* apply has returned on the tree of the example: seven pops, three replays
\* that forked and four that completed
C18_Witness ==
    /\ pc = "returned"
    /\ TwoByTwo(flow)
    /\ Len(popped) = 7
    /\ Len(forked) = 3
    /\ Len(completed) = 4

(***************************************************************************)
(* C19.  A nested search runs on a backlog of its own.                     *)
(***************************************************************************)
\* the collection a sub-chart makes of the flow f: the normalized results of
\* the leaves of the tree of f, last leaf first
FullCollection(f) ==
    LET leaves == Leaves(f)
        n == Len(leaves)
        Of(k) == LET a == leaves[n + 1 - k]
                     res == ReturnValue(f, ValuesOf(f, a, Len(a)))
                 IN  IF IsNone(res) THEN <<>> ELSE Contribution(PyValue(f, res))
    IN  Flat([k \in 1 .. n |-> Of(k)])

\* the method is CompositeChart.h: no choice of its own, two sub-searches
\* of four records each on different names
FourByFour(m) ==
    /\ m.body.sites = <<>>
    /\ Len(m.subs) = 2
    /\ \A k \in 1 .. 2 : TwoByTwo(m.subs[k]) /\ m.subs[k].ret = "vars"
    /\ m.subs[1].names # m.subs[2].names

\* C19: each apply invocation owns its backlog exclusively.  When a flow
\* running under an outer apply starts a nested search through
\* Chart.execute, the inner apply starts on a backlog of its own that holds
\* the empty path only, and on an empty result list; while the inner search
\* runs, the backlog, the result list and the replay of the outer apply do
\* not change, and when it ends the outer apply goes on with them as they
\* were; the inner search returns the full collection of its own flow.  So
\* a flow that combines two sub-searches of four records each on different
\* names yields 16 records of 4 keys each.
C19_NestedSearchOwnsBacklog ==
    /\ [][/\ (frames # <<>> /\ frames' # <<>>) => frames' = frames
          /\ (frames = <<>> /\ frames' # <<>>) =>
                 /\ frames'[1].stack = stack
                 /\ frames'[1].results = results
                 /\ frames'[1].chosen = chosen /\ frames'[1].choosit = choosit
                 /\ stack' = << <<>> >> /\ results' = <<>>
          /\ (frames # <<>> /\ frames' = <<>>) =>
                 /\ stack' = frames[1].stack
                 /\ results' = frames[1].results
                 /\ chosen' = frames[1].chosen /\ choosit' = frames[1].choosit
                 /\ inres' = Append(inres, FullCollection(flow))]_vars
    /\ []((pc = "created" /\ FourByFour(methods[1])) =>
             /\ Len(chartAssignments) = 16
             /\ \A i \in 1 .. 16 :
                    /\ chartAssignments[i][1] = "dict"
                    /\ Cardinality(DOMAIN chartAssignments[i][2]) = 4)

\* a replay of the outer flow has made two nested searches of four records
\* each, while a path of the outer search waits on the outer backlog
C19_Witness ==
    /\ pc = "flow"
    /\ frames = <<>>
    /\ Len(inres) = 2
    /\ Len(inres[1]) = 4
    /\ Len(inres[2]) = 4
    /\ stack = << <<0>> >>

(***************************************************************************)
(* C20.  fix and filter keep order and multiplicity, and are idempotent.   *)
(***************************************************************************)
\* the k-th call of the chain was fix or filter: the container it returned
\* is the one after its receiver
Selecting(k) == k <= Len(hist) /\ hist[k][1] \in {"fix", "filter"}

\* C20: fix and filter preserve order and multiplicity: the records of the
\* collection returned are the records at some positions of the receiver,
\* in the order of the receiver, each position taken once and each record as
\* it is in the receiver; and applying the same constraints a second time
\* changes nothing: fix(C).fix(C) = fix(C), filter(C).filter(C) = filter(C).
C20_SubsequenceAndIdempotent ==
    /\ \A k \in 1 .. 2 :
           Selecting(k) =>
               \E K \in SUBSET (1 .. Len(heap[k])) : Restricted(heap[k + 1], heap[k], K)
    /\ (Selecting(1) /\ Selecting(2) /\ hist[1][1] = hist[2][1]
            /\ hist[1][2] = hist[2][2]) =>
           /\ heap[3] = heap[2]
           /\ cur = heap[2]

\* the same filter twice on two different records, the first of which the
\* first call dropped
C20_Witness ==
    /\ Chained("filter")
    /\ hist[1][2] = hist[2][2]
    /\ Len(asn) = 2
    /\ asn[1] # asn[2]
    /\ heap[2] = <<asn[2]>>
    /\ cur = <<asn[2]>>

====
